---- MODULE Spec2Model ----
(***************************************************************************)
(* Model of emmet.qchem.molecules (src/emmet/qchem/molecules.py): the      *)
(* MoleculesBuilder that merges task documents into molecule documents.    *)
(*                                                                         *)
(* Python values are modelled as follows.                                  *)
(*   str used as a task id  : a sequence of one-character strings, so that *)
(*                            split("-") and int() are computed            *)
(*   dict                   : a function whose DOMAIN is the key set       *)
(*   list                   : a sequence                                   *)
(*   an exception           : a result record with status "raised"         *)
(***************************************************************************)
EXTENDS Integers, Sequences, FiniteSets, TLC

VARIABLES
    task_group,      \* make_mol: the argument, a list of task documents
    mm,              \* make_mol: the call's outcome, see make_mol below
    prev_mol,        \* the document the previous make_mol call on the same tasks returned
    tasks_store,     \* self.tasks: the set of task documents
    molecules_store, \* self.molecules: the molecule documents by key
    query,           \* self.query: a dict of field -> required value
    timestamp,       \* self.timestamp
    gi,              \* get_items: position, keys still to yield, batches yielded
    pi_tasks,        \* process_item: the argument, a batch of task documents
    pi,              \* process_item: position, groups, molecules so far, result
    ut_items,        \* update_targets: the argument, a list of lists of documents
    ut               \* update_targets: position and the docs handed to molecules.update

mm_vars == <<task_group, mm, prev_mol>>
store_vars == <<tasks_store, molecules_store, query>>
gi_vars == <<gi, timestamp>>
pi_vars == <<pi_tasks, pi>>
ut_vars == <<ut_items, ut>>

vars == <<mm_vars, store_vars, gi_vars, pi_vars, ut_vars>>

(***************************************************************************)
(* Bounds of the model.                                                    *)
(***************************************************************************)
MaxGroup == 2       \* tasks in one task group
MaxTime == 2        \* last_updated values are 1..MaxTime
MaxItems == 2       \* lists handed to update_targets, and documents in each

(***************************************************************************)
(* Strings as character sequences.                                         *)
(***************************************************************************)
\* The characters used in ids, in code point order (str comparison order).
Alphabet == <<"-", "0", "1", "2", "3", "4", "5", "6", "7", "8", "9",
              "a", "b", "c", "e", "g", "x">>

\* The rank of every character of the alphabet.
Rank == [c \in {Alphabet[i] : i \in 1..Len(Alphabet)} |->
            CHOOSE i \in 1..Len(Alphabet) : Alphabet[i] = c] @@ <<>>

Ord(c) == Rank[c]

Digits == {"0", "1", "2", "3", "4", "5", "6", "7", "8", "9"}

DigitVal(c) == Ord(c) - Ord("0")

\* Python's < on two str values: lexicographic by code point.
StrLess(a, b) ==
    \E i \in 1..(Len(b)) :
        /\ i <= Len(a) + 1
        /\ \A j \in 1..(i - 1) : a[j] = b[j]
        /\ \/ i = Len(a) + 1
           \/ (i <= Len(a) /\ Ord(a[i]) < Ord(b[i]))

\* str.split("-"): the segments between the dashes, left to right.
RECURSIVE split(_)
split(s) ==
    IF \A i \in 1..Len(s) : s[i] # "-"
    THEN <<s>>
    ELSE LET d == CHOOSE i \in 1..Len(s) :
                     s[i] = "-" /\ \A j \in 1..(i - 1) : s[j] # "-"
         IN  <<SubSeq(s, 1, d - 1)>> \o split(SubSeq(s, d + 1, Len(s)))

\* int(str) succeeds on a non-empty run of digits (the alphabet has no sign,
\* blank or underscore) and raises ValueError otherwise.
IsIntLiteral(s) == Len(s) > 0 /\ \A i \in 1..Len(s) : s[i] \in Digits

RECURSIVE int(_)
int(s) == IF Len(s) = 0 THEN 0
          ELSE 10 * int(SubSeq(s, 1, Len(s) - 1)) + DigitVal(s[Len(s)])

(***************************************************************************)
(* Task ids.  A task id is a str, a number, or something else (None).      *)
(***************************************************************************)
StrId(chars) == [kind |-> "str", chars |-> chars, num |-> 0]
NumId(n) == [kind |-> "int", chars |-> <<>>, num |-> n]
NoneId == [kind |-> "none", chars |-> <<>>, num |-> 0]

\* ID_to_int: the sort key of an id.  ok = FALSE when the call raises
\* (ValueError from int(), or the explicit Exception of the last branch).
ID_to_int(s_id) ==
    IF s_id.kind = "str"
    THEN LET parts == split(s_id.chars)
             last == parts[Len(parts)]
         IN  IF IsIntLiteral(last)
             THEN [ok |-> TRUE, kind |-> "tuple", prefix |-> parts[1], num |-> int(last),
                   error |-> "none"]
             ELSE [ok |-> FALSE, kind |-> "tuple", prefix |-> <<>>, num |-> 0,
                   error |-> "ValueError"]
    ELSE IF s_id.kind = "int"
    THEN [ok |-> TRUE, kind |-> "num", prefix |-> <<>>, num |-> s_id.num, error |-> "none"]
    ELSE [ok |-> FALSE, kind |-> "num", prefix |-> <<>>, num |-> 0, error |-> "Exception"]

\* Python's < on two keys ID_to_int returned (both of the same kind).
IdKeyLess(k1, k2) ==
    IF k1.kind = "tuple"
    THEN IF k1.prefix = k2.prefix THEN k1.num < k2.num
         ELSE StrLess(k1.prefix, k2.prefix)
    ELSE k1.num < k2.num

(***************************************************************************)
(* sorted(): Python's sort is stable, also with reverse=True.              *)
(***************************************************************************)
\* The index list order with index x inserted before the first index whose key
\* the key of x precedes.
InsertBy(KeyBefore(_, _), keys, order, x) ==
    LET later == {i \in 1..Len(order) : KeyBefore(keys[x], keys[order[i]])}
        pos == IF later = {} THEN Len(order) + 1
               ELSE CHOOSE i \in later : \A j \in later : i <= j
    IN  SubSeq(order, 1, pos - 1) \o <<x>> \o SubSeq(order, pos, Len(order))

\* sorted(s, key=Key): every key is computed once, then the elements are put
\* in key order, elements with equal keys keeping their order in s.
\* KeyBefore(k1, k2) is k1 < k2, or k1 > k2 for reverse=True.
sorted(Key(_), KeyBefore(_, _), s) ==
    LET keys == [i \in 1..Len(s) |-> Key(s[i])] \o <<>>
        acc[i \in 0..Len(s)] ==
            IF i = 0 THEN <<>> ELSE InsertBy(KeyBefore, keys, acc[i - 1], i)
        order == acc[Len(s)]
    IN  [i \in 1..Len(s) |-> s[order[i]]] \o <<>>

(***************************************************************************)
(* The rule table (self.__settings) and the stores' field names.           *)
(***************************************************************************)
\* self.tasks.key / self.molecules.key and the stores' lu_field.
TasksKey == "task_id"
MolKey == "task_id"
LuField == "last_updated"

Rule(mk, tk, qs, track, aggregate, optional) ==
    [molecules_key |-> mk, tasks_key |-> tk, quality_score |-> qs,
     track |-> track, aggregate |-> aggregate, optional |-> optional]

\* The loaded settings: one rule per (target field, source path).  Two rules
\* may write the same molecules_key from different task types.
settings ==
    << Rule("structure", "output.optimized_molecule", ("opt" :> 2),
            TRUE, FALSE, TRUE),
       Rule("energy", "output.final_energy", ("opt" :> 2),
            TRUE, FALSE, FALSE),
       Rule("energy", "output.final_energy", ("sp" :> 1),
            FALSE, TRUE, FALSE),
       Rule("scf_energy", "output.final_energy", ("opt" :> 2 @@ "sp" :> 1),
            FALSE, FALSE, FALSE),
       Rule("energies", "output.final_energy", ("opt" :> 2 @@ "sp" :> 1),
            TRUE, TRUE, FALSE) >>

\* Python's < on the molecules_key strings of the rule table.
MoleculesKeyOrder == <<"energies", "energy", "scf_energy", "structure">>

KeyRank(k) == CHOOSE i \in 1..Len(MoleculesKeyOrder) : MoleculesKeyOrder[i] = k

\* self.allowed_tasks
allowed_tasks ==
    UNION {DOMAIN settings[i].quality_score : i \in 1..Len(settings)}

(***************************************************************************)
(* pydash has / get on a task document: the nested payload is the function *)
(* task.output from dotted path to value.                                  *)
(***************************************************************************)
has(task, path) == path \in DOMAIN task.output

get(task, path, default) ==
    IF path \in DOMAIN task.output THEN task.output[path] ELSE default

\* A field value is a single payload or a list of payloads.  The payload a
\* task holds at a path is told apart by the task's id.
Payload(id, path) == [is_list |-> FALSE, path |-> path, task |-> id]

ListOf(values) == [is_list |-> TRUE, items |-> values]

\* task_type(task["orig"]): the classifier's answer is carried by the task.
task_type(task) == task.task_type

(***************************************************************************)
(* MoleculesBuilder.task_to_prop_list                                      *)
(***************************************************************************)
task_to_prop_list(task) ==
    LET t_type == task_type(task)
        t_id == task.task_id
        props[i \in 0..Len(settings)] ==
            IF i = 0 THEN <<>>
            ELSE LET prop == settings[i]
                 IN  IF /\ t_type \in DOMAIN prop.quality_score
                        /\ has(task, prop.tasks_key)
                     THEN Append(props[i - 1],
                            [value |-> get(task, prop.tasks_key, 0),
                             task_type |-> t_type,
                             task_id |-> t_id,
                             quality_score |-> prop.quality_score[t_type],
                             track |-> prop.track,
                             aggregate |-> prop.aggregate,
                             last_updated |-> task.last_updated,
                             energy |-> get(task, "output.energy", 0),
                             molecules_key |-> prop.molecules_key])
                     ELSE props[i - 1]
    IN  props[Len(settings)]

(***************************************************************************)
(* MoleculesBuilder.make_mol, step by step.                                *)
(***************************************************************************)
RECURSIVE flatten(_)
flatten(lists) ==
    IF Len(lists) = 0 THEN <<>> ELSE Head(lists) \o flatten(Tail(lists))

\* line 140
all_props(group) == flatten([i \in 1..Len(group) |-> task_to_prop_list(group[i])])

\* line 143, the key function
IdKey(prop) == ID_to_int(prop.task_id)

\* line 143: the sort fails when a key cannot be computed (the first such
\* call raises), or when keys of the two kinds (tuple, number) are compared.
IdSortError(props) ==
    LET keys == [i \in 1..Len(props) |-> IdKey(props[i])] \o <<>>
        bad == {i \in 1..Len(props) : ~keys[i].ok}
    IN  IF bad # {}
        THEN keys[CHOOSE i \in bad : \A j \in bad : i <= j].error
        ELSE IF Cardinality({keys[i].kind : i \in 1..Len(props)}) > 1
        THEN "TypeError"
        ELSE "none"

possible_mol_ids(props) ==
    LET s == sorted(IdKey, IdKeyLess, props)
    IN  [i \in 1..Len(s) |-> s[i][TasksKey]] \o <<>>

\* line 147, the key function and Python's < on two molecules_key values
MoleculesKey(prop) == prop.molecules_key

MoleculesKeyLess(k1, k2) == KeyRank(k1) < KeyRank(k2)

\* itertools.groupby on molecules_key: the runs of consecutive equal keys.
RECURSIVE groupby(_)
groupby(s) ==
    IF Len(s) = 0 THEN <<>>
    ELSE LET k == s[1].molecules_key
             n == CHOOSE n \in 1..Len(s) :
                      /\ \A i \in 1..n : s[i].molecules_key = k
                      /\ (n = Len(s) \/ s[n + 1].molecules_key # k)
         IN  <<SubSeq(s, 1, n)>> \o groupby(SubSeq(s, n + 1, Len(s)))

\* The key with the energy not negated: the highest energy would sort first.
QualityKeyEnergyNotNegated(prop) == <<prop.quality_score, prop.energy>>

\* line 154, the key function (quality_score, -1.0 * energy)
QualityKey(prop) == <<prop.quality_score, 0 - prop.energy>>

\* Python's > on two such tuples (reverse=True sorts the larger key first).
QualityKeyGreater(k1, k2) ==
    \/ k1[1] > k2[1]
    \/ (k1[1] = k2[1] /\ k1[2] > k2[2])

\* The aggregate branch without line 160: the track flag is left as it was.
best_prop_keeps_track(props) ==
    LET sorted_props == sorted(QualityKey, QualityKeyGreater, props)
    IN  IF sorted_props[1].aggregate
        THEN [sorted_props[1] EXCEPT
                 !.value = ListOf([i \in 1..Len(sorted_props) |->
                                      sorted_props[i].value] \o <<>>)]
        ELSE sorted_props[1]

\* lines 154-163: the property kept for one molecules_key.
best_prop(props) ==
    LET sorted_props == sorted(QualityKey, QualityKeyGreater, props)
    IN  IF sorted_props[1].aggregate
        THEN [sorted_props[1] EXCEPT
                 !.value = ListOf([i \in 1..Len(sorted_props) |->
                                      sorted_props[i].value] \o <<>>),
                 !.track = FALSE]
        ELSE sorted_props[1]

\* lines 147-163
best_props(props) ==
    LET grouped_props == groupby(sorted(MoleculesKey, MoleculesKeyLess, props))
    IN  [g \in 1..Len(grouped_props) |-> best_prop(grouped_props[g])] \o <<>>

\* lines 166-168
OriginOf(prop) ==
    [molecules_key |-> prop.molecules_key, task_type |-> prop.task_type,
     task_id |-> prop.task_id, last_updated |-> prop.last_updated]

IsTracked(prop) == prop.track

origins(best) ==
    LET pick[i \in 0..Len(best)] ==
            IF i = 0 THEN <<>>
            ELSE IF IsTracked(best[i]) THEN Append(pick[i - 1], OriginOf(best[i]))
            ELSE pick[i - 1]
    IN  pick[Len(best)]

Max(S) == CHOOSE x \in S : \A y \in S : y <= x
Min(S) == CHOOSE x \in S : \A y \in S : x <= y

\* created_at taken from the kept properties only, not from all candidates.
created_at_of_winners(props) ==
    LET best == best_props(props)
    IN  Min({best[i].last_updated : i \in 1..Len(best)})

\* line 177 / line 178
updated_at(props) == Max({props[i].last_updated : i \in 1..Len(props)})

created_at(props) == Min({props[i].last_updated : i \in 1..Len(props)})

\* pydash set_ on a key without dots
set_(doc, key, value) == (key :> value) @@ doc

\* lines 170-186: the document before the metadata step.
assemble(group, props, best) ==
    LET mol_id == possible_mol_ids(props)[1]
        task_ids == {group[i].task_id : i \in 1..Len(group)}
        prop_ids == {props[i].task_id : i \in 1..Len(props)}
        task_types == [id \in prop_ids |->
                          LET last == Max({i \in 1..Len(props) : props[i].task_id = id})
                          IN  props[last].task_type]
        base == (LuField :> updated_at(props))
                @@ ("created_at" :> created_at(props))
                @@ ("task_ids" :> task_ids)
                @@ ("origins" :> origins(best))
                @@ ("task_types" :> task_types)
        keyed == set_(base, MolKey, mol_id)
        filled[i \in 0..Len(best)] ==
            IF i = 0 THEN keyed
            ELSE set_(filled[i - 1], best[i].molecules_key, best[i].value)
    IN  filled[Len(best)]

\* structure_metadata: the keys it returns (the values are pymatgen's).
structure_metadata(structure) ==
    [k \in {"nsites", "elements", "nelements", "composition", "composition_reduced",
            "formula_pretty", "formula_anonymous", "chemsys"} |-> <<k, structure>>]

\* No document (None), and whether a value is a molecule document.
NoDoc == [none |-> TRUE]

IsDoc(d) == "created_at" \in DOMAIN d

\* make_mol as a whole: what it returns or raises.  The name `structure` of
\* line 190 is bound nowhere (no local, no global, no builtin), so evaluating
\* the argument of structure_metadata raises NameError.
make_mol(group) ==
    LET props == all_props(group)
        id_error == IdSortError(props)
    IN  IF id_error # "none"
        THEN [status |-> "raised", error |-> id_error, props |-> props,
              best |-> <<>>, mol |-> NoDoc]
        ELSE IF Len(props) = 0
        THEN [status |-> "raised", error |-> "IndexError", props |-> props,
              best |-> <<>>, mol |-> NoDoc]
        ELSE LET best == best_props(props)
                 doc == assemble(group, props, best)
             IN  IF "structure" \in DOMAIN doc
                 THEN [status |-> "raised", error |-> "NameError", props |-> props,
                       best |-> best, mol |-> NoDoc]
                 ELSE [status |-> "returned", error |-> "none", props |-> props,
                       best |-> best, mol |-> doc]

(***************************************************************************)
(* Task documents the stores can hold.                                     *)
(***************************************************************************)
TaskTypes == {"opt", "sp"}


\* The nested payloads: nothing extractable; a final energy with and without
\* output.energy; a final energy and an optimized molecule.
Outputs(id) ==
    { <<>>,
      ("output.final_energy" :> Payload(id, "output.final_energy")),
      ("output.energy" :> -7)
          @@ ("output.final_energy" :> Payload(id, "output.final_energy")),
      ("output.energy" :> -7)
          @@ ("output.final_energy" :> Payload(id, "output.final_energy"))
          @@ ("output.optimized_molecule" :> Payload(id, "output.optimized_molecule")) }

Task(id, type, lu, formula, state, output) ==
    [task_id |-> id, task_type |-> type, last_updated |-> lu,
     formula_pretty |-> formula, state |-> state, output |-> output]

TasksWithIds(ids) ==
    UNION { { Task(id, ty, lu, "H2O", "successful", out) :
                ty \in TaskTypes, lu \in 1..MaxTime, out \in Outputs(id) } :
            id \in ids }

\* The lists of at most n tasks with pairwise different task ids (the task
\* store's key is unique).
TaskLists(ids, n) ==
    { g \in UNION {[1..k -> TasksWithIds(ids)] : k \in 1..n} :
        \A i, j \in 1..Len(g) : i # j => g[i].task_id # g[j].task_id }

MolIds == {StrId(<<"e", "g", "-", "3">>), StrId(<<"e", "g", "-", "1", "2">>),
           StrId(<<"a", "b", "c", "-", "1">>)}

\* Ids that are told apart as strings but not by their ID_to_int key.
OrderIds == MolIds \cup {StrId(<<"e", "g", "-", "0", "3">>),
                         StrId(<<"e", "g", "-", "9">>)}

(***************************************************************************)
(* make_mol as an operation of the builder.                                *)
(***************************************************************************)
\* make_mol has not been called on task_group yet.
Ready == [status |-> "ready", error |-> "none", props |-> <<>>, best |-> <<>>,
          mol |-> NoDoc]

MakeMol ==
    /\ mm.status = "ready"
    /\ mm' = make_mol(task_group)
    /\ UNCHANGED <<task_group, prev_mol, store_vars, gi_vars, pi_vars, ut_vars>>

\* The next pass hands make_mol the same tasks in another order (the task
\* store's query and the grouper fix no order).
Requery ==
    /\ mm.status = "returned"
    /\ ~IsDoc(prev_mol)
    /\ \E p \in [1..Len(task_group) -> 1..Len(task_group)] :
          /\ \A i, j \in 1..Len(task_group) : i # j => p[i] # p[j]
          /\ \E i \in 1..Len(task_group) : p[i] # i
          /\ task_group' = [i \in 1..Len(task_group) |-> task_group[p[i]]]
    /\ prev_mol' = mm.mol
    /\ mm' = Ready
    /\ UNCHANGED <<store_vars, gi_vars, pi_vars, ut_vars>>

\* The parts of the state an operation under study does not use.
IdleMol == task_group = <<>> /\ mm = Ready /\ prev_mol = NoDoc
IdleStores == tasks_store = {} /\ molecules_store = <<>> /\ query = <<>>
IdleItems == gi = [pc |-> "idle"] /\ timestamp = 0
IdleProcess == pi_tasks = <<>> /\ pi = [pc |-> "idle"]
IdleTargets == ut_items = <<>> /\ ut = [pc |-> "idle"]

InitMol ==
    /\ task_group \in TaskLists(MolIds, MaxGroup)
    /\ mm = Ready
    /\ prev_mol = NoDoc
    /\ IdleStores /\ IdleItems /\ IdleProcess /\ IdleTargets

NextMol == MakeMol

SpecMol == InitMol /\ [][NextMol]_vars

InitOrder ==
    /\ task_group \in TaskLists(OrderIds, MaxGroup)
    /\ mm = Ready
    /\ prev_mol = NoDoc
    /\ IdleStores /\ IdleItems /\ IdleProcess /\ IdleTargets

NextOrder == MakeMol \/ Requery

SpecOrder == InitOrder /\ [][NextOrder]_vars

(***************************************************************************)
(* Properties of make_mol.                                                 *)
(***************************************************************************)
\* The candidates make_mol extracted from the group, and those of one field.
\* all_props of the call that has been made (line 140)
Candidates == mm.props

CandidatesOf(k) == SelectSeq(Candidates, LAMBDA p : p.molecules_key = k)

ResolvedKeys == {mm.best[i].molecules_key : i \in 1..Len(mm.best)}

\* c ranks at least as high as d: higher quality_score, or equal and energy
\* not above.
RanksFirst(c, d) ==
    \/ c.quality_score > d.quality_score
    \/ (c.quality_score = d.quality_score /\ c.energy <= d.energy)

\* The candidate a kept property was taken from.
WinnerOf(b) ==
    LET cs == CandidatesOf(b.molecules_key)
    IN  cs[CHOOSE j \in 1..Len(cs) : cs[j].task_id = b.task_id]

\* C1: for every field none of whose candidates is aggregate, the resolved
\* value is the value of a candidate of the maximum quality_score and, among
\* those, of the minimum energy; every field with a candidate is resolved
\* exactly once and a returned document holds the resolved value.
C1_HighestQualityLowestEnergy ==
    Len(mm.best) > 0 =>
        /\ ResolvedKeys = {Candidates[i].molecules_key : i \in 1..Len(Candidates)}
        /\ Cardinality(ResolvedKeys) = Len(mm.best)
        /\ \A i \in 1..Len(mm.best) :
              LET b == mm.best[i]
                  cs == CandidatesOf(b.molecules_key)
              IN  (\A j \in 1..Len(cs) : ~cs[j].aggregate) =>
                      /\ \E j \in 1..Len(cs) :
                            /\ cs[j].value = b.value
                            /\ cs[j].task_id = b.task_id
                            /\ \A m \in 1..Len(cs) : RanksFirst(cs[j], cs[m])
                      /\ (mm.status = "returned" => mm.mol[b.molecules_key] = b.value)

\* A returned document whose field has two candidates of equal quality_score
\* and different energy, the lower energy being the one resolved.
C1_Witness ==
    /\ mm.status = "returned"
    /\ \E i \in 1..Len(mm.best) :
          LET b == mm.best[i]
              cs == CandidatesOf(b.molecules_key)
          IN  /\ \A j \in 1..Len(cs) : ~cs[j].aggregate
              /\ \E j, m \in 1..Len(cs) :
                    /\ cs[j].quality_score = cs[m].quality_score
                    /\ cs[j].energy < cs[m].energy
                    /\ mm.mol[b.molecules_key] = cs[j].value

\* C2 (as claimed): whenever any candidate of a field is aggregate, the
\* field's value is a list with one entry per candidate, by descending
\* quality_score then ascending energy, and the field has no origin record.
C2_AggregateWheneverAnyCandidateIs ==
    mm.status = "returned" =>
        \A i \in 1..Len(mm.best) :
            LET b == mm.best[i]
                k == b.molecules_key
                cs == CandidatesOf(k)
                v == mm.mol[k]
                os == mm.mol["origins"]
            IN  (\E j \in 1..Len(cs) : cs[j].aggregate) =>
                    /\ v.is_list
                    /\ Len(v.items) = Len(cs)
                    /\ \E p \in [1..Len(cs) -> 1..Len(cs)] :
                          /\ \A x, y \in 1..Len(cs) : x # y => p[x] # p[y]
                          /\ \A x \in 1..Len(cs) : v.items[x] = cs[p[x]].value
                          /\ \A x, y \in 1..Len(cs) :
                                x < y => RanksFirst(cs[p[x]], cs[p[y]])
                    /\ ~b.track
                    /\ \A o \in 1..Len(os) : os[o].molecules_key # k

\* C4: origins holds exactly one record, that of the winning candidate, for
\* every field resolved to a single winner whose track flag is true, and no
\* record for an aggregated field or a field whose winner has track false.
C4_OriginsOfTrackedWinners ==
    mm.status = "returned" =>
        LET os == mm.mol["origins"]
        IN  /\ \A o \in 1..Len(os) : os[o].molecules_key \in ResolvedKeys
            /\ \A i \in 1..Len(mm.best) :
                  LET b == mm.best[i]
                      w == WinnerOf(b)
                      recs == {o \in 1..Len(os) : os[o].molecules_key = b.molecules_key}
                  IN  IF ~mm.mol[b.molecules_key].is_list /\ w.track
                      THEN /\ Cardinality(recs) = 1
                           /\ \A o \in recs :
                                 os[o] = [molecules_key |-> b.molecules_key,
                                          task_type |-> w.task_type,
                                          task_id |-> w.task_id,
                                          last_updated |-> w.last_updated]
                      ELSE recs = {}

\* A returned document with an origin for a tracked field, an aggregated
\* field whose rule is tracked, and a field whose winner is not tracked.
C4_Witness ==
    /\ mm.status = "returned"
    /\ Len(mm.mol["origins"]) > 0
    /\ \E i \in 1..Len(mm.best) :
          mm.mol[mm.best[i].molecules_key].is_list /\ WinnerOf(mm.best[i]).track
    /\ \E i \in 1..Len(mm.best) :
          ~mm.mol[mm.best[i].molecules_key].is_list /\ ~WinnerOf(mm.best[i]).track

\* C5: created_at is the minimum and the last-updated field the maximum of
\* last_updated over all candidates, created_at is not after the last-updated
\* field, and both lie between the least and the greatest last_updated of the
\* group's tasks.
C5_TimestampBounds ==
    mm.status = "returned" =>
        LET cand_lu == {Candidates[i].last_updated : i \in 1..Len(Candidates)}
            task_lu == {task_group[i].last_updated : i \in 1..Len(task_group)}
            c == mm.mol["created_at"]
            u == mm.mol[LuField]
        IN  /\ c \in cand_lu /\ \A t \in cand_lu : c <= t
            /\ u \in cand_lu /\ \A t \in cand_lu : t <= u
            /\ c <= u
            /\ \A t \in {c, u} : Min(task_lu) <= t /\ t <= Max(task_lu)

\* A returned document whose created_at comes from a candidate that won no
\* field and is older than every winner.
C5_Witness ==
    /\ mm.status = "returned"
    /\ \E i \in 1..Len(Candidates) :
          /\ \A j \in 1..Len(mm.best) : mm.best[j].task_id # Candidates[i].task_id
          /\ Candidates[i].last_updated = mm.mol["created_at"]
          /\ \A j \in 1..Len(mm.best) :
                Candidates[i].last_updated < mm.best[j].last_updated

\* C10 (as claimed): when the resolved fields include 'structure', make_mol
\* returns a document that carries the metadata of structure_metadata.
C10_StructureGetsMetadata ==
    (mm.status # "ready" /\ "structure" \in ResolvedKeys) =>
        /\ mm.status = "returned"
        /\ \A k \in DOMAIN structure_metadata(mm.mol["structure"]) :
              k \in DOMAIN mm.mol

\* C3 (as claimed): the molecule id is the task id with the least ID_to_int
\* key and is the same whatever the order of the group's tasks.
C3_MolIdIndependentOfOrder ==
    mm.status = "returned" =>
        /\ \A i \in 1..Len(Candidates) :
              ~IdKeyLess(IdKey(Candidates[i]), ID_to_int(mm.mol[MolKey]))
        /\ (IsDoc(prev_mol) => mm.mol[MolKey] = prev_mol[MolKey])

\* C9 (as claimed): the resolved fields and the origins are the same whatever
\* the order of the group's tasks.
C9_ResolutionIndependentOfOrder ==
    (mm.status = "returned" /\ IsDoc(prev_mol)) =>
        /\ mm.mol["origins"] = prev_mol["origins"]
        /\ \A k \in ResolvedKeys :
              /\ mm.mol[k].is_list = prev_mol[k].is_list
              /\ mm.mol[k] = prev_mol[k]

(***************************************************************************)
(* MoleculesBuilder.get_items                                              *)
(***************************************************************************)
\* A store's query criteria: a dict of field -> required value.
Matches(doc, criteria) == \A k \in DOMAIN criteria : doc[k] = criteria[k]

\* Store.distinct(field, criteria) on the task store
distinct(field, criteria) == {t[field] : t \in {d \in tasks_store : Matches(d, criteria)}}

\* lines 63-64
q == ("state" :> "successful") @@ query

\* line 67
all_tasks == distinct("task_id", q)

\* line 68: the distinct members of the molecules' task_ids lists
processed_tasks ==
    UNION {molecules_store[k]["task_ids"] : k \in DOMAIN molecules_store}

\* line 69
to_process_tasks == all_tasks \ processed_tasks

\* line 70: criteria {"task_id": {"$in": to_process_tasks}}
to_process_forms ==
    {t.formula_pretty : t \in {d \in tasks_store : d.task_id \in to_process_tasks}}

\* The molecule store's last_updated: the newest lu_field it holds, or the
\* earliest date (0) when it is empty.
last_updated(store) ==
    IF DOMAIN store = {} THEN 0
    ELSE Max({store[k][LuField] : k \in DOMAIN store})

\* lines 75-77: lu_filter selects the tasks updated after that date
updated_forms ==
    {t.formula_pretty :
        t \in {d \in tasks_store :
                  Matches(d, q) /\ d[LuField] > last_updated(molecules_store)}}

\* The change set without the updated keys.
forms_to_update_new_only == to_process_forms

\* line 80
forms_to_update == updated_forms \cup to_process_forms

\* lines 85-87
tasks_of(formula) ==
    {d \in tasks_store : Matches(d, ("formula_pretty" :> formula) @@ q)}

\* lines 53-82: everything before the first yield
GetItemsStart ==
    /\ gi.pc = "start"
    /\ timestamp' = MaxTime + 1
    /\ gi' = [pc |-> "yielding", forms |-> forms_to_update,
              total |-> Cardinality(forms_to_update), yielded |-> <<>>]
    /\ UNCHANGED <<mm_vars, store_vars, pi_vars, ut_vars>>

\* lines 84-88: one turn of the loop (a set is iterated in no fixed order)
YieldTasks ==
    /\ gi.pc = "yielding"
    /\ \E formula \in gi.forms :
          gi' = [gi EXCEPT !.forms = @ \ {formula},
                           !.yielded = Append(@, tasks_of(formula))]
    /\ UNCHANGED <<mm_vars, store_vars, timestamp, pi_vars, ut_vars>>

\* the loop is exhausted
GetItemsEnd ==
    /\ gi.pc = "yielding"
    /\ gi.forms = {}
    /\ gi' = [gi EXCEPT !.pc = "done"]
    /\ UNCHANGED <<mm_vars, store_vars, timestamp, pi_vars, ut_vars>>

Formulas == {"H2O", "CO2"}

States == {"successful", "failed"}

\* One task per id, with any grouping key, state and last_updated.
TaskStores ==
    { {Task(id, "opt", a[id][3], a[id][1], a[id][2],
            ("output.final_energy" :> Payload(id, "output.final_energy"))) :
          id \in MolIds} :
      a \in [MolIds -> Formulas \X States \X (1..MaxTime)] }

MoleculeDoc(ids, lu) ==
    (MolKey :> CHOOSE id \in ids :
                   \A o \in ids : ~IdKeyLess(ID_to_int(o), ID_to_int(id)))
    @@ ("task_ids" :> ids) @@ (LuField :> lu)

\* The molecule store before a pass: empty, or one document of earlier tasks.
MoleculeStores ==
    {<<>>} \cup
    { (MoleculeDoc(ids, lu)[MolKey] :> MoleculeDoc(ids, lu)) :
        ids \in (SUBSET MolIds) \ {{}}, lu \in 1..MaxTime }

Queries == {<<>>, ("formula_pretty" :> "H2O")}

InitItems ==
    /\ tasks_store \in TaskStores
    /\ molecules_store \in MoleculeStores
    /\ query \in Queries
    /\ gi = [pc |-> "start", forms |-> {}, total |-> 0, yielded |-> <<>>]
    /\ timestamp = 0
    /\ IdleMol /\ IdleProcess /\ IdleTargets

NextItems == GetItemsStart \/ YieldTasks \/ GetItemsEnd

SpecItems == InitItems /\ [][NextItems]_vars

\* The tasks the pass looks at: successful and selected by the builder's query.
Selected == {t \in tasks_store : t.state = "successful" /\ Matches(t, query)}

NewKeys ==
    {t.formula_pretty :
        t \in {d \in Selected :
                  \A k \in DOMAIN molecules_store :
                      d.task_id \notin molecules_store[k]["task_ids"]}}

UpdatedKeys ==
    {t.formula_pretty :
        t \in {d \in Selected : d.last_updated > last_updated(molecules_store)}}

YieldedKey(i) == (CHOOSE t \in gi.yielded[i] : TRUE).formula_pretty

\* C6: get_items yields one batch per grouping key of the change set (the
\* keys of new successful tasks united with the keys of successful tasks
\* updated since the checkpoint): no key twice, no other key, and every batch
\* holds the successful tasks of its key.
C6_OneBatchPerChangedKey ==
    gi.pc \in {"yielding", "done"} =>
        /\ \A i \in 1..Len(gi.yielded) : gi.yielded[i] # {}
        /\ \A i, j \in 1..Len(gi.yielded) : i # j => YieldedKey(i) # YieldedKey(j)
        /\ \A i \in 1..Len(gi.yielded) :
              /\ YieldedKey(i) \in NewKeys \cup UpdatedKeys
              /\ gi.yielded[i] = {t \in Selected : t.formula_pretty = YieldedKey(i)}
        /\ gi.pc = "done" =>
              {YieldedKey(i) : i \in 1..Len(gi.yielded)} = NewKeys \cup UpdatedKeys

\* A finished pass where one key has two new tasks and an updated one and is
\* yielded once, and another key with successful tasks is not yielded.
C6_Witness ==
    /\ gi.pc = "done"
    /\ Len(gi.yielded) = 1
    /\ \E k \in NewKeys \cap UpdatedKeys :
          Cardinality({t \in Selected : t.formula_pretty = k
                          /\ t.task_id \notin processed_tasks}) >= 2
    /\ \E t \in Selected : t.formula_pretty \notin NewKeys \cup UpdatedKeys

(***************************************************************************)
(* MoleculesBuilder.process_item and filter_and_group_tasks                *)
(***************************************************************************)
\* group_structures as the grouper is specified: some partition of the
\* structures 1..n into groups, every structure in exactly one group.  A
\* partition is given by group labels in order of first appearance.
group_structures(n) ==
    LET labelings ==
            {f \in [1..n -> 1..n] :
                \A i \in 1..n : f[i] <= 1 + Max({0} \cup {f[j] : j \in 1..(i - 1)})}
        indices == [i \in 1..n |-> i]
    IN  { [k \in 1..Max({0} \cup {f[i] : i \in 1..n}) |->
              SelectSeq(indices, LAMBDA i : f[i] = k)] : f \in labelings }

\* line 199
filtered_tasks(tasks) == SelectSeq(tasks, LAMBDA t : task_type(t) \in allowed_tasks)

\* lines 101-108 with a grouper that meets its specification: the batch is
\* filtered and grouped
ProcessStart ==
    /\ pi.pc = "start"
    /\ LET filtered == filtered_tasks(pi_tasks)
       IN  \E grouped \in group_structures(Len(filtered)) :
              pi' = [pc |-> "loop",
                     groups |-> [g \in 1..Len(grouped) |->
                                   [i \in 1..Len(grouped[g]) |-> filtered[grouped[g][i]]]],
                     next |-> 1, molecules |-> <<>>, error |-> "none"]
    /\ UNCHANGED <<mm_vars, store_vars, gi_vars, pi_tasks, ut_vars>>

\* lines 106-108 with the grouper of this file: group_structures (lines
\* 284-288) raises for every input, NotImplemented not being callable, when
\* the loop first asks the generator for a group.
ProcessStartGrouperRaises ==
    /\ pi.pc = "start"
    /\ pi' = [pi EXCEPT !.pc = "raised", !.error = "TypeError"]
    /\ UNCHANGED <<mm_vars, store_vars, gi_vars, pi_tasks, ut_vars>>

\* lines 108-109: one turn of the loop; an exception of make_mol is caught
\* nowhere and ends process_item, the molecules list with it.
ProcessGroup ==
    /\ pi.pc = "loop"
    /\ pi.next <= Len(pi.groups)
    /\ LET r == make_mol(pi.groups[pi.next])
       IN  pi' = IF r.status = "returned"
                 THEN [pi EXCEPT !.next = @ + 1, !.molecules = Append(@, r.mol)]
                 ELSE [pi EXCEPT !.pc = "raised", !.molecules = <<>>,
                                 !.error = r.error]
    /\ UNCHANGED <<mm_vars, store_vars, gi_vars, pi_tasks, ut_vars>>

\* lines 111-113
ProcessReturn ==
    /\ pi.pc = "loop"
    /\ pi.next > Len(pi.groups)
    /\ pi' = [pi EXCEPT !.pc = "returned"]
    /\ UNCHANGED <<mm_vars, store_vars, gi_vars, pi_tasks, ut_vars>>

\* Ids of a batch, one of which int() cannot parse.
ProcessIds == {StrId(<<"e", "g", "-", "3">>), StrId(<<"a", "b", "c", "-", "1">>),
               StrId(<<"e", "g", "-", "x">>)}

\* A task of a type no rule names.
OtherTasks(ids) ==
    { Task(id, "freq", 1, "H2O", "successful",
           ("output.final_energy" :> Payload(id, "output.final_energy"))) : id \in ids }

Batches ==
    { g \in UNION {[1..k -> TasksWithIds(ProcessIds) \cup OtherTasks(ProcessIds)] :
                      k \in 1..MaxGroup} :
        \A i, j \in 1..Len(g) : i # j => g[i].task_id # g[j].task_id }

InitProcess ==
    /\ pi_tasks \in Batches
    /\ pi = [pc |-> "start", groups |-> <<>>, next |-> 1, molecules |-> <<>>,
             error |-> "none"]
    /\ IdleMol /\ IdleStores /\ IdleItems /\ IdleTargets

NextProcess ==
    ProcessStart \/ ProcessStartGrouperRaises \/ ProcessGroup \/ ProcessReturn

SpecProcess == InitProcess /\ [][NextProcess]_vars

\* The ids of a group's tasks.
GroupIds(g) == {g[i].task_id : i \in 1..Len(g)}

valid_anything(doc) == TRUE

\* lines 241-245
valid(doc) == "structure" \in DOMAIN doc

\* filter(None, ...): None and the empty dict are false
truthy(doc) == DOMAIN doc # {} /\ "none" \notin DOMAIN doc

\* lines 123-132
UpdateTargets ==
    /\ ut.pc = "start"
    /\ LET items == SelectSeq(flatten(ut_items), LAMBDA i : truthy(i) /\ valid(i))
           stamped == [i \in 1..Len(items) |-> ("_bt" :> timestamp) @@ items[i]] \o <<>>
           keys == {stamped[i][MolKey] : i \in 1..Len(stamped)}
       IN  IF Len(stamped) > 0
           THEN /\ molecules_store' =
                      [k \in keys \cup DOMAIN molecules_store |->
                          IF k \in keys
                          THEN stamped[Max({i \in 1..Len(stamped) : stamped[i][MolKey] = k})]
                          ELSE molecules_store[k]]
                /\ ut' = [pc |-> "done", updates |-> <<stamped>>]
           ELSE /\ molecules_store' = molecules_store
                /\ ut' = [pc |-> "done", updates |-> <<>>]
    /\ UNCHANGED <<mm_vars, tasks_store, query, gi_vars, pi_vars, ut_items>>

\* The documents process_item can hand over: an empty one, one without the
\* structure field, and one with it and its metadata.
PlainTask ==
    Task(StrId(<<"e", "g", "-", "3">>), "opt", 1, "H2O", "successful",
         ("output.final_energy" :> Payload(StrId(<<"e", "g", "-", "3">>),
                                           "output.final_energy")))

StructureTask ==
    Task(StrId(<<"a", "b", "c", "-", "1">>), "opt", 1, "H2O", "successful",
         ("output.optimized_molecule" :> Payload(StrId(<<"a", "b", "c", "-", "1">>),
                                                 "output.optimized_molecule")))

EmptyDoc == <<>>

StructurelessDoc == make_mol(<<PlainTask>>).mol

StructuredDoc ==
    LET props == all_props(<<StructureTask>>)
        doc == assemble(<<StructureTask>>, props, best_props(props))
    IN  structure_metadata(doc["structure"]) @@ doc

Documents == {EmptyDoc, StructurelessDoc, StructuredDoc}

ListsOf(S, n) == UNION {[1..k -> S] : k \in 0..n}

InitTargets ==
    /\ ut_items \in ListsOf(ListsOf(Documents, MaxItems), MaxItems)
    /\ ut = [pc |-> "start", updates |-> <<>>]
    /\ timestamp = MaxTime + 1
    /\ molecules_store = <<>>
    /\ tasks_store = {}
    /\ query = <<>>
    /\ gi = [pc |-> "idle"]
    /\ IdleMol /\ IdleProcess

NextTargets == UpdateTargets

SpecTargets == InitTargets /\ [][NextTargets]_vars

\* The documents of the call's argument, as chain.from_iterable lists them,
\* that are not empty and contain 'structure'.
WritableDocs ==
    LET all == flatten(ut_items)
    IN  SelectSeq(all, LAMBDA d : DOMAIN d # {} /\ "structure" \in DOMAIN d)

\* C7: update_targets hands molecules.update exactly the non-empty documents
\* that contain 'structure', in order and stamped with the pass timestamp; a
\* document without it is never written and does not keep the others from
\* being written; with nothing to write the store is not called.
C7_WritesExactlyTheValidDocs ==
    ut.pc = "done" =>
        IF Len(WritableDocs) = 0
        THEN ut.updates = <<>> /\ DOMAIN molecules_store = {}
        ELSE /\ Len(ut.updates) = 1
             /\ Len(ut.updates[1]) = Len(WritableDocs)
             /\ \A i \in 1..Len(WritableDocs) :
                   /\ "structure" \in DOMAIN ut.updates[1][i]
                   /\ ut.updates[1][i][MolKey] = WritableDocs[i][MolKey]
                   /\ ut.updates[1][i]["_bt"] = timestamp
                   /\ WritableDocs[i][MolKey] \in DOMAIN molecules_store
             /\ \A k \in DOMAIN molecules_store : "structure" \in DOMAIN molecules_store[k]

\* A call whose argument holds a document without 'structure', an empty one
\* and a valid one, and that wrote the valid one.
C7_Witness ==
    /\ ut.pc = "done"
    /\ \E i \in 1..Len(flatten(ut_items)) :
          /\ DOMAIN flatten(ut_items)[i] # {}
          /\ "structure" \notin DOMAIN flatten(ut_items)[i]
    /\ \E i \in 1..Len(flatten(ut_items)) : DOMAIN flatten(ut_items)[i] = {}
    /\ Len(ut.updates) = 1
    /\ DOMAIN molecules_store # {}

====
